---- MODULE Spec2Model ----
(***************************************************************************)
(* Model of the live tutor component (App) of iPad-Tutor: the session      *)
(* lifecycle (startTutor / stopSession), the capture pipeline (microphone  *)
(* chunks and screen frames sent through sessionPromise) and the playback  *)
(* scheduler (onmessage).  Two variants of the component are modelled:     *)
(*   "A"  src/App.tsx                                                      *)
(*   "B"  src/unnamed/part_000                                             *)
(* Every action is one run of a handler on the single event loop, from its *)
(* entry (or the await it resumes from) to its next await or its return.   *)
(***************************************************************************)
EXTENDS Integers, Sequences, FiniteSets

\* ---------------------------------------------------------------- bounds
MaxStarts == 2      \* invocations of startTutor
MaxStartsMedia == 1 \* invocations of startTutor where the media pipelines run
MaxMsgs   == 2      \* inbound messages delivered to onmessage
MaxChunks == 2      \* onaudioprocess callbacks
MaxFrames == 2      \* frame timer ticks
MaxClock  == 2      \* highest value of an output context's currentTime

Invs      == 1..MaxStarts
Durations == {1, 2}                 \* audioBuffer.duration of a decoded message
NULL      == "null"
ErrMsgs   == {"NotAllowedError", ""} \* err.message of a thrown error ("" is falsy)

VARIABLES
  variant,           \* "A" = src/App.tsx, "B" = src/unnamed/part_000
  faulty,            \* whether a release call of the platform may still fail
  apiKey,            \* whether process.env.API_KEY is set
  getDisplayMedia,   \* whether the browser has a getDisplayMedia function
  clicks,            \* how many times the user clicks the start button
  isActive, status, error,                       \* React state
  audioContextRef,   \* 0 = null, k = {input, output} created by invocation k
  streamsRef,        \* [mic, screen], 0 = null, k = stream acquired by invocation k
  nextStartTimeRef,
  sourcesRef,        \* set of indices into units
  frameIntervalRef,  \* 0 = null, k = interval created by onopen of invocation k
  pc,                \* position of each startTutor invocation / its remote session
  screen, mic,       \* state of the stream each invocation acquired
  inputCtx, outputCtx, \* state of the audio contexts each invocation created
  currentTime,       \* outputCtx.currentTime of each invocation
  timer,             \* state of the interval each invocation's onopen created
  onended,           \* whether screen track k has its onended handler assigned
  closureIsActive,   \* isActive as captured by the closures of invocation k
  scriptProcessor,   \* whether onaudioprocess of invocation k is registered
  resolved,          \* whether sessionPromise of invocation k has resolved
  thenQ,             \* reactions queued on sessionPromise k, in registration order
  sent,              \* payloads passed to session k's sendRealtimeInput, in order
  blobPending,       \* frames whose canvas.toBlob has not called back yet
  readPending,       \* frames whose FileReader has not fired onloadend yet
  msgs,              \* onmessage handlers suspended at await decodeAudioData
  units,             \* every playback unit given to source.start, in order
  nStarts, nMsgs, nChunks, nFrames,   \* how many of each event happened
  audioFired,        \* chunk ids whose onaudioprocess ran, per invocation
  decodeFailed,      \* a decodeAudioData of some inbound message has thrown
  lastEnd,           \* start + duration of the latest unit of the current run
  intr,              \* an interruption was handled and no unit scheduled since
  stopped,           \* stopSession ran and startTutor was not invoked since
  lastEff,           \* id of the inbound message that last changed playback state
  last               \* the handler that ran last and the release calls it issued

vars == << variant, faulty, apiKey, getDisplayMedia, clicks, isActive, status, error, audioContextRef, streamsRef,
           nextStartTimeRef, sourcesRef, frameIntervalRef, pc, screen, mic,
           inputCtx, outputCtx, currentTime, timer, onended, closureIsActive,
           scriptProcessor,
           resolved, thenQ, sent, blobPending, readPending, msgs, units,
           nStarts, nMsgs, nChunks, nFrames, audioFired, decodeFailed,
           lastEnd, intr, stopped, lastEff, last >>

\* ------------------------------------------------------------ text constants
StatusScreen     == IF variant = "A" THEN "Starting Screen..." ELSE "Accessing Screen..."
StatusMic        == IF variant = "A" THEN "Starting Mic..." ELSE "Accessing Mic..."
StatusConnecting == IF variant = "A" THEN "AI Connecting..." ELSE "Connecting to Gemini..."
StatusOpen       == IF variant = "A" THEN "Active" ELSE "Connected"
NoScreenShareMsg == IF variant = "A"
                    THEN "Screen Sharing API missing. Ensure you are in Desktop Mode (Tap 'AA' in Safari) and NOT inside an iframe."
                    ELSE "Screen sharing is not supported in this browser or context."
FallbackMsg      == IF variant = "A" THEN "Failed to start. Check Safari settings."
                    ELSE "Failed to start the tutor session."
NoApiKeyMsg      == "API Key not found. Please ensure process.env.API_KEY is configured."
ConnectionErrMsg == "A connection error occurred with the Gemini API."

Max(a, b) == IF a >= b THEN a ELSE b

\* --------------------------------------------------------------- the heap
\* The state stopSession reads and writes, as one record, so that a handler
\* that assigns some of it and then calls stopSession composes the two.
Cur ==
  [ isActive |-> isActive, status |-> status,
    frameIntervalRef |-> frameIntervalRef, streamsRef |-> streamsRef,
    audioContextRef |-> audioContextRef, sourcesRef |-> sourcesRef,
    nextStartTimeRef |-> nextStartTimeRef, timer |-> timer, mic |-> mic,
    screen |-> screen, inputCtx |-> inputCtx, outputCtx |-> outputCtx,
    units |-> units, calls |-> {} ]

Commit(h) ==
  /\ isActive' = h.isActive
  /\ status' = h.status
  /\ frameIntervalRef' = h.frameIntervalRef
  /\ streamsRef' = h.streamsRef
  /\ audioContextRef' = h.audioContextRef
  /\ sourcesRef' = h.sourcesRef
  /\ nextStartTimeRef' = h.nextStartTimeRef
  /\ timer' = h.timer
  /\ mic' = h.mic
  /\ screen' = h.screen
  /\ inputCtx' = h.inputCtx
  /\ outputCtx' = h.outputCtx
  /\ units' = h.units

\* track.stop() of every track of a stream: readyState becomes "ended"
StopTracks(st, k) == [st EXCEPT ![k] = IF @ = "live" THEN "ended" ELSE @]

\* AudioContext.close(): an open context becomes closed; on a closed one the
\* returned promise rejects, which .catch(() => {}) swallows
CloseCtx(cx, k, fails) == [cx EXCEPT ![k] = IF @ = "open" /\ ~fails THEN "closed" ELSE @]

\* sourcesRef.forEach(s => { try { s.stop() } catch (e) {} }): every unit of the
\* set is stopped, unless its stop() throws, which is swallowed
StopSources(us, set, fails) ==
  [i \in DOMAIN us |->
     IF i \in set /\ us[i].st = "sched" /\ ~fails THEN [us[i] EXCEPT !.st = "stopped"]
     ELSE us[i]]

\* The release calls that may fail on a faulty platform
Faults == {"none", "clearInterval", "micStop", "screenStop", "inClose", "outClose", "srcStop"}

\* The step of stopSession at which it throws under fault f (99: it returns)
ThrowsAt(h, f) ==
  IF f = "clearInterval" /\ h.frameIntervalRef # 0 THEN 1
  ELSE IF f = "micStop" /\ h.streamsRef.mic # 0 THEN 2
  ELSE IF f = "screenStop" /\ h.streamsRef.screen # 0 THEN 3
  ELSE 99

\* stopSession, on heap h, with release call f failing
stopSession(h, f) ==
  LET t  == ThrowsAt(h, f)
      h0 == [h EXCEPT !.isActive = FALSE, !.status = "Ready"]
      \* if (frameIntervalRef.current) clearInterval(...)
      h1 == IF h0.frameIntervalRef = 0 THEN h0
            ELSE IF t = 1 THEN [h0 EXCEPT !.calls = @ \cup {"clearInterval"}]
            ELSE [h0 EXCEPT !.timer[h0.frameIntervalRef] = "cleared",
                            !.calls = @ \cup {"clearInterval"},
                            !.frameIntervalRef = IF variant = "B" THEN 0 ELSE @]
      \* if (streamsRef.current.mic) ...getTracks().forEach(t => t.stop())
      h2 == IF t < 2 \/ h1.streamsRef.mic = 0 THEN h1
            ELSE IF t = 2 THEN [h1 EXCEPT !.calls = @ \cup {"track.stop"}]
            ELSE [h1 EXCEPT !.mic = StopTracks(@, h1.streamsRef.mic),
                            !.calls = @ \cup {"track.stop"},
                            !.streamsRef.mic = IF variant = "B" THEN 0 ELSE @]
      \* if (streamsRef.current.screen) ...getTracks().forEach(t => t.stop())
      h3 == IF t < 3 \/ h2.streamsRef.screen = 0 THEN h2
            ELSE IF t = 3 THEN [h2 EXCEPT !.calls = @ \cup {"track.stop"}]
            ELSE [h2 EXCEPT !.screen = StopTracks(@, h2.streamsRef.screen),
                            !.calls = @ \cup {"track.stop"},
                            !.streamsRef.screen = IF variant = "B" THEN 0 ELSE @]
      \* if (audioContextRef.current) { input.close().catch(); output.close().catch() }
      h4 == IF t < 99 \/ h3.audioContextRef = 0 THEN h3
            ELSE [h3 EXCEPT !.inputCtx = CloseCtx(@, h3.audioContextRef, f = "inClose"),
                            !.outputCtx = CloseCtx(@, h3.audioContextRef, f = "outClose"),
                            !.calls = @ \cup {"close"},
                            !.audioContextRef = IF variant = "B" THEN 0 ELSE @]
      \* sourcesRef.forEach(stop); sourcesRef.clear(); nextStartTimeRef.current = 0
      h5 == IF t < 99 THEN h4
            ELSE [h4 EXCEPT !.units = StopSources(@, h4.sourcesRef, f = "srcStop"),
                            !.calls = IF h4.sourcesRef = {} THEN @ ELSE @ \cup {"source.stop"},
                            !.sourcesRef = {},
                            !.nextStartTimeRef = 0]
  IN h5

\* The release calls a handler may see fail: on a faulty platform, one call fails
FaultsNow == IF faulty THEN Faults ELSE {"none"}

\* History kept with every run of stopSession: the current run of playback
\* units ends, pending onmessage handlers have seen a stop, and the teardown
\* is remembered until the next start attempt.
TeardownWith(h, f, op, k, m) ==
  /\ Commit(stopSession(h, f))
  /\ last' = [op |-> op, k |-> k, calls |-> stopSession(h, f).calls, stop |-> TRUE,
              interrupted |-> FALSE, thrown |-> m]
  /\ faulty' = (faulty /\ f = "none")
  /\ stopped' = TRUE
  /\ lastEnd' = 0
  /\ intr' = FALSE
  /\ msgs' = {[x EXCEPT !.clean = FALSE] : x \in msgs}
  /\ decodeFailed' = decodeFailed

\* stopSession called by a handler that caught no error
Teardown(h, f, op, k) == TeardownWith(h, f, op, k, NULL)

\* The state after the component's first render, on a platform whose release
\* calls may fail (f) or not, with a user who clicks start up to c times
InitWith(f, c) ==
  /\ variant \in {"A", "B"}
  /\ faulty = f
  /\ clicks = c
  /\ apiKey \in BOOLEAN /\ getDisplayMedia \in BOOLEAN
  /\ isActive = FALSE /\ status = "Ready" /\ error = NULL
  /\ audioContextRef = 0
  /\ streamsRef = [mic |-> 0, screen |-> 0]
  /\ nextStartTimeRef = 0
  /\ sourcesRef = {}
  /\ frameIntervalRef = 0
  /\ pc = [k \in Invs |-> "unused"]
  /\ screen = [k \in Invs |-> "none"]
  /\ mic = [k \in Invs |-> "none"]
  /\ inputCtx = [k \in Invs |-> "none"]
  /\ outputCtx = [k \in Invs |-> "none"]
  /\ currentTime = [k \in Invs |-> 0]
  /\ timer = [k \in Invs |-> "none"]
  /\ onended = [k \in Invs |-> FALSE]
  /\ closureIsActive = [k \in Invs |-> FALSE]
  /\ scriptProcessor = [k \in Invs |-> FALSE]
  /\ resolved = [k \in Invs |-> FALSE]
  /\ thenQ = [k \in Invs |-> << >>]
  /\ sent = [k \in Invs |-> << >>]
  /\ blobPending = {} /\ readPending = {}
  /\ msgs = {}
  /\ units = << >>
  /\ nStarts = 0 /\ nMsgs = 0 /\ nChunks = 0 /\ nFrames = 0
  /\ audioFired = [k \in Invs |-> {}]
  /\ decodeFailed = FALSE
  /\ lastEnd = 0 /\ intr = FALSE /\ stopped = FALSE /\ lastEff = 0
  /\ last = [op |-> "init", k |-> 0, calls |-> {}, stop |-> FALSE, interrupted |-> FALSE,
             thrown |-> NULL]

Init == InitWith(FALSE, MaxStarts)

envVars  == << variant, apiKey, getDisplayMedia, clicks, nMsgs >>
sendVars == << scriptProcessor, resolved, thenQ, sent, blobPending, readPending,
               nChunks, nFrames, audioFired >>
playVars == << msgs, lastEnd, intr, decodeFailed >>
\* What is remembered of a handler that neither tears down nor fails to start
Other == [op |-> "other", k |-> 0, calls |-> {}, stop |-> FALSE, interrupted |-> FALSE,
          thrown |-> NULL]

\* ------------------------------------------------------------- startTutor
\* Variation of Catch: the catch block without its call of stopSession
CatchWithoutStop(h, k, m) ==
  /\ error' = IF m = "" THEN FallbackMsg ELSE m
  /\ Commit(h)
  /\ last' = [Other EXCEPT !.op = "catch", !.k = k, !.thrown = m]
  /\ pc' = IF k = 0 THEN pc ELSE [pc EXCEPT ![k] = "failed"]
  /\ UNCHANGED << faulty, stopped, playVars >>

\* catch (err) { setError(err.message || fallback); stopSession(); }
Catch(h, k, m) ==
  /\ error' = IF m = "" THEN FallbackMsg ELSE m
  /\ \E f \in FaultsNow : TeardownWith(h, f, "catch", k, m)
  /\ pc' = IF k = 0 THEN pc ELSE [pc EXCEPT ![k] = "failed"]

\* The click on the start button, up to the await of getDisplayMedia
startTutor ==
  /\ ~isActive
  /\ nStarts < clicks
  /\ IF variant = "B" /\ ~apiKey
     THEN /\ error' = NoApiKeyMsg
          /\ last' = Other
          /\ UNCHANGED << isActive, status, frameIntervalRef, streamsRef, audioContextRef,
                          sourcesRef, nextStartTimeRef, timer, mic, screen, inputCtx,
                          outputCtx, units, pc, nStarts, stopped, playVars,
                          closureIsActive, faulty >>
     ELSE IF ~getDisplayMedia
     THEN /\ Catch(Cur, 0, NoScreenShareMsg)
          /\ UNCHANGED << nStarts, closureIsActive >>
     ELSE /\ error' = NULL
          /\ Commit([Cur EXCEPT !.status = StatusScreen])
          /\ pc' = [pc EXCEPT ![nStarts + 1] = "awaitScreen"]
          /\ nStarts' = nStarts + 1
          /\ closureIsActive' = [closureIsActive EXCEPT ![nStarts + 1] = isActive]
          /\ stopped' = FALSE
          /\ last' = Other
          /\ UNCHANGED << playVars, faulty >>
  /\ UNCHANGED << envVars, sendVars, currentTime, onended, lastEff >>

\* getDisplayMedia resolved: setStatus, then the await of getUserMedia
ScreenResolved(k) ==
  /\ pc[k] = "awaitScreen"
  /\ Commit([Cur EXCEPT !.screen[k] = "live", !.status = StatusMic])
  /\ pc' = [pc EXCEPT ![k] = "awaitMic"]
  /\ last' = Other
  /\ UNCHANGED << faulty, envVars, sendVars, playVars, error, currentTime, onended, closureIsActive, nStarts,
                  stopped, lastEff >>

\* getDisplayMedia rejected with message m
ScreenRejected(k, m) ==
  /\ pc[k] = "awaitScreen"
  /\ Catch(Cur, k, m)
  /\ UNCHANGED << envVars, sendVars, currentTime, onended, closureIsActive, nStarts, lastEff >>

\* getUserMedia resolved: streamsRef and onended are assigned, the two audio
\* contexts are created (ctxFail names the constructor that throws, if one
\* does), audioContextRef is assigned, then the await of videoEl.play()
MicResolved(k, ctxFail, m) ==
  /\ pc[k] = "awaitMic"
  /\ onended' = [onended EXCEPT ![k] = TRUE]
  /\ LET h1 == [Cur EXCEPT !.mic[k] = "live", !.streamsRef = [mic |-> k, screen |-> k]]
         h2 == [h1 EXCEPT !.inputCtx[k] = "open"]
         h3 == [h2 EXCEPT !.outputCtx[k] = "open", !.audioContextRef = k]
     IN  IF ctxFail = "input" THEN Catch(h1, k, m)
         ELSE IF ctxFail = "output" THEN Catch(h2, k, m)
         ELSE /\ Commit(h3)
              /\ pc' = [pc EXCEPT ![k] = "awaitPlay"]
              /\ last' = Other
              /\ UNCHANGED << error, stopped, playVars, faulty >>
  /\ UNCHANGED << envVars, sendVars, currentTime, closureIsActive, nStarts, lastEff >>

\* getUserMedia rejected with message m
MicRejected(k, m) ==
  /\ pc[k] = "awaitMic"
  /\ Catch(Cur, k, m)
  /\ UNCHANGED << envVars, sendVars, currentTime, onended, closureIsActive, nStarts, lastEff >>

\* videoEl.play() resolved: setStatus and the call of ai.live.connect, which is
\* not awaited (connectThrows: the constructor or the call throws synchronously)
PlayResolved(k, connectThrows, m) ==
  /\ pc[k] = "awaitPlay"
  /\ IF connectThrows THEN Catch(Cur, k, m)
     ELSE /\ Commit([Cur EXCEPT !.status = StatusConnecting])
          /\ pc' = [pc EXCEPT ![k] = "connecting"]
          /\ last' = Other
          /\ UNCHANGED << error, stopped, playVars, faulty >>
  /\ UNCHANGED << envVars, sendVars, currentTime, onended, closureIsActive, nStarts, lastEff >>

\* videoEl.play() rejected with message m
PlayRejected(k, m) ==
  /\ pc[k] = "awaitPlay"
  /\ Catch(Cur, k, m)
  /\ UNCHANGED << envVars, sendVars, currentTime, onended, closureIsActive, nStarts, lastEff >>

\* The promise ai.live.connect returned rejects: nothing awaits it and no
\* handler is attached to it, so no code of the component runs
ConnectRejected(k) ==
  /\ pc[k] = "connecting"
  /\ pc' = [pc EXCEPT ![k] = "rejected"]
  /\ last' = [Other EXCEPT !.op = "connectRejected", !.k = k]
  /\ Commit(Cur)
  /\ UNCHANGED << faulty, envVars, sendVars, playVars, error, currentTime, onended, closureIsActive, nStarts,
                  stopped, lastEff >>

\* ------------------------------------------------------ terminal events
\* The user's click on the stop button
UserStop ==
  /\ isActive
  /\ \E f \in FaultsNow : Teardown(Cur, f, "userStop", 0)
  /\ UNCHANGED << envVars, sendVars, error, pc, currentTime, onended, closureIsActive, nStarts, lastEff >>

\* The shared screen's video track ends (the browser's "stop sharing")
TrackEnded(k) ==
  /\ screen[k] = "live"
  /\ LET h == [Cur EXCEPT !.screen[k] = "ended"]
     IN  IF onended[k]
         THEN \E f \in FaultsNow : Teardown(h, f, "onended", 0)
         ELSE /\ Commit(h)
              /\ last' = Other
              /\ UNCHANGED << stopped, playVars, faulty >>
  /\ UNCHANGED << envVars, sendVars, error, pc, currentTime, onended, closureIsActive, nStarts, lastEff >>

\* callbacks.onerror
onerror(k) ==
  /\ pc[k] \in {"connecting", "open"}
  /\ pc' = [pc EXCEPT ![k] = "errored"]
  /\ error' = IF variant = "B" THEN ConnectionErrMsg ELSE error
  /\ \E f \in FaultsNow : Teardown(Cur, f, "onerror", 0)
  /\ UNCHANGED << envVars, sendVars, currentTime, onended, closureIsActive, nStarts, lastEff >>

\* Variation of onclose: a close surfaced as a connection error
oncloseSetsError(k) ==
  /\ pc[k] \in {"connecting", "open", "errored"}
  /\ pc' = [pc EXCEPT ![k] = "closed"]
  /\ error' = ConnectionErrMsg
  /\ \E f \in FaultsNow : Teardown(Cur, f, "onclose", 0)
  /\ UNCHANGED << envVars, sendVars, currentTime, onended, closureIsActive, nStarts, lastEff >>

\* callbacks.onclose
onclose(k) ==
  /\ pc[k] \in {"connecting", "open", "errored"}
  /\ pc' = [pc EXCEPT ![k] = "closed"]
  /\ \E f \in FaultsNow : Teardown(Cur, f, "onclose", 0)
  /\ UNCHANGED << envVars, sendVars, error, currentTime, onended, closureIsActive, nStarts, lastEff >>

\* --------------------------------------------------------- capture pipeline
\* sessionPromise.then(session => session.sendRealtimeInput(p)): the reaction
\* runs at once when the promise has resolved, and is queued on it otherwise
Enqueue(k, p) ==
  IF resolved[k]
  THEN sent' = [sent EXCEPT ![k] = Append(@, p)] /\ UNCHANGED thenQ
  ELSE thenQ' = [thenQ EXCEPT ![k] = Append(@, p)] /\ UNCHANGED sent

\* callbacks.onopen.  nodeThrows: createMediaStreamSource / createScriptProcessor
\* throws, which a platform may do on a context that is already closed
onopen(k, nodeThrows) ==
  /\ pc[k] = "connecting"
  /\ nodeThrows => inputCtx[k] # "open"
  /\ pc' = [pc EXCEPT ![k] = "open"]
  /\ IF nodeThrows
     THEN /\ Commit([Cur EXCEPT !.status = StatusOpen, !.isActive = TRUE])
          /\ UNCHANGED scriptProcessor
     ELSE /\ Commit([Cur EXCEPT !.status = StatusOpen, !.isActive = TRUE,
                                !.frameIntervalRef = k, !.timer[k] = "running"])
          /\ scriptProcessor' = [scriptProcessor EXCEPT ![k] = TRUE]
  /\ last' = Other
  /\ UNCHANGED << faulty, envVars, playVars, resolved, thenQ, sent, blobPending, readPending,
                  nChunks, nFrames, audioFired, error, currentTime, onended,
                  closureIsActive, nStarts, stopped, lastEff >>

\* sessionPromise resolves: the queued reactions run in registration order
SessionResolved(k) ==
  /\ pc[k] = "open" /\ ~resolved[k]
  /\ resolved' = [resolved EXCEPT ![k] = TRUE]
  /\ sent' = [sent EXCEPT ![k] = @ \o thenQ[k]]
  /\ thenQ' = [thenQ EXCEPT ![k] = << >>]
  /\ last' = Other
  /\ Commit(Cur)
  /\ UNCHANGED << faulty, envVars, playVars, scriptProcessor, blobPending, readPending,
                  nChunks, nFrames, audioFired, error, pc, currentTime, onended,
                  closureIsActive, nStarts, stopped, lastEff >>

\* scriptProcessor.onaudioprocess, called by the running input context
onaudioprocess(k) ==
  /\ scriptProcessor[k] /\ inputCtx[k] = "open"
  /\ nChunks < MaxChunks
  /\ nChunks' = nChunks + 1
  /\ audioFired' = [audioFired EXCEPT ![k] = @ \cup {nChunks + 1}]
  /\ IF variant = "A" /\ ~closureIsActive[k]
     THEN UNCHANGED << thenQ, sent >>
     ELSE Enqueue(k, << "audio", nChunks + 1 >>)
  /\ last' = Other
  /\ Commit(Cur)
  /\ UNCHANGED << faulty, envVars, playVars, scriptProcessor, resolved, blobPending,
                  readPending, nFrames, error, pc, currentTime, onended,
                  closureIsActive, nStarts, stopped, lastEff >>

\* The setInterval callback.  drawable: the video has a size and the canvas a
\* 2d context.  Variant A encodes with toDataURL and sends; variant B starts
\* canvas.toBlob and returns.
frameTick(k, drawable) ==
  /\ timer[k] = "running"
  /\ nFrames < MaxFrames
  /\ nFrames' = nFrames + 1
  /\ IF ~drawable THEN UNCHANGED << thenQ, sent, blobPending >>
     ELSE IF variant = "A"
     THEN Enqueue(k, << "video", nFrames + 1 >>) /\ UNCHANGED blobPending
     ELSE /\ blobPending' = blobPending \cup {[k |-> k, n |-> nFrames + 1]}
          /\ UNCHANGED << thenQ, sent >>
  /\ last' = Other
  /\ Commit(Cur)
  /\ UNCHANGED << faulty, envVars, playVars, scriptProcessor, resolved, readPending, nChunks,
                  audioFired, error, pc, currentTime, onended, closureIsActive,
                  nStarts, stopped, lastEff >>

\* The callback of canvas.toBlob: if (blob) reader.readAsDataURL(blob)
toBlobCallback(fr, hasBlob) ==
  /\ fr \in blobPending
  /\ blobPending' = blobPending \ {fr}
  /\ readPending' = IF hasBlob THEN readPending \cup {fr} ELSE readPending
  /\ last' = Other
  /\ Commit(Cur)
  /\ UNCHANGED << faulty, envVars, playVars, scriptProcessor, resolved, thenQ, sent, nChunks,
                  nFrames, audioFired, error, pc, currentTime, onended,
                  closureIsActive, nStarts, stopped, lastEff >>

\* reader.onloadend: if (base64Data) sessionPromise.then(send)
onloadend(fr, hasData) ==
  /\ fr \in readPending
  /\ readPending' = readPending \ {fr}
  /\ IF hasData THEN Enqueue(fr.k, << "video", fr.n >>) ELSE UNCHANGED << thenQ, sent >>
  /\ last' = Other
  /\ Commit(Cur)
  /\ UNCHANGED << faulty, envVars, playVars, scriptProcessor, resolved, blobPending, nChunks,
                  nFrames, audioFired, error, pc, currentTime, onended,
                  closureIsActive, nStarts, stopped, lastEff >>

\* ------------------------------------------------------- playback scheduler
\* Variation of Interrupt: the interruption handled by a full stopSession
InterruptByStopSession(h) == stopSession(h, "none")

\* The interrupted branch of onmessage, on heap h
Interrupt(h) ==
  [h EXCEPT !.units = StopSources(@, h.sourcesRef, FALSE),
            !.calls = IF h.sourcesRef = {} THEN @ ELSE @ \cup {"source.stop"},
            !.sourcesRef = {},
            !.nextStartTimeRef = 0]

\* callbacks.onmessage, from its entry to the await of decodeAudioData or, for
\* a message without audio, to its return
onmessage(k, hasAudio, interrupted) ==
  /\ pc[k] = "open"
  /\ nMsgs < MaxMsgs
  /\ nMsgs' = nMsgs + 1
  /\ LET id  == nMsgs + 1
         ctx == IF variant = "A" THEN audioContextRef ELSE k
     IN  IF hasAudio /\ ctx # 0
         THEN /\ Commit([Cur EXCEPT !.nextStartTimeRef = Max(@, currentTime[ctx])])
              /\ msgs' = msgs \cup {[id |-> id, k |-> k, ctx |-> ctx,
                                     interrupted |-> interrupted, clean |-> TRUE]}
              /\ lastEff' = IF currentTime[ctx] > nextStartTimeRef THEN id ELSE lastEff
              /\ last' = Other
              /\ UNCHANGED << lastEnd, intr >>
         ELSE IF interrupted /\ variant = "B"
         THEN /\ Commit(Interrupt(Cur))
              /\ msgs' = {[m EXCEPT !.clean = FALSE] : m \in msgs}
              /\ lastEff' = IF sourcesRef # {} \/ nextStartTimeRef # 0 THEN id ELSE lastEff
              /\ last' = [Other EXCEPT !.interrupted = TRUE,
                                                      !.calls = Interrupt(Cur).calls]
              /\ lastEnd' = 0
              /\ intr' = TRUE
         ELSE /\ Commit(Cur)
              /\ last' = [Other EXCEPT !.interrupted = interrupted]
              /\ intr' = (intr \/ interrupted)
              /\ UNCHANGED << msgs, lastEff, lastEnd >>
  /\ UNCHANGED << variant, faulty, apiKey, getDisplayMedia, clicks, sendVars, error, pc,
                  currentTime, onended, decodeFailed,
                  closureIsActive, nStarts, stopped >>

\* Variation of Unit: the unit is started at the output clock's current value
\* instead of at nextStartTimeRef
UnitStartedNow(m, d) ==
  [ start |-> currentTime[m.ctx], dur |-> d, at |-> currentTime[m.ctx], ctx |-> m.ctx,
    msg |-> m.id, st |-> "sched", prevEnd |-> lastEnd, clean |-> m.clean,
    afterIntr |-> intr, afterFail |-> decodeFailed ]

\* The playback unit the handler of message m gives to source.start
Unit(m, d) ==
  [ start |-> nextStartTimeRef, dur |-> d, at |-> currentTime[m.ctx], ctx |-> m.ctx,
    msg |-> m.id, st |-> "sched", prevEnd |-> lastEnd, clean |-> m.clean,
    afterIntr |-> intr, afterFail |-> decodeFailed ]

\* onmessage resumed after await decodeAudioData with a buffer of duration d:
\* the unit is started and nextStartTimeRef advanced; variant B also adds the
\* unit to sourcesRef and then handles the message's interrupted flag
decodeResolved(m, d) ==
  /\ m \in msgs
  /\ LET i  == Len(units) + 1
         h1 == [Cur EXCEPT !.units = Append(@, Unit(m, d)),
                           !.nextStartTimeRef = @ + d,
                           !.sourcesRef = IF variant = "B" THEN @ \cup {i} ELSE @]
         h2 == IF variant = "B" /\ m.interrupted THEN Interrupt(h1) ELSE h1
     IN  /\ Commit(h2)
         /\ last' = [Other EXCEPT !.interrupted = m.interrupted,
                                                   !.calls = h2.calls]
         /\ lastEnd' = IF variant = "B" /\ m.interrupted THEN 0 ELSE nextStartTimeRef + d
         /\ intr' = m.interrupted
         /\ msgs' = IF variant = "B" /\ m.interrupted
                    THEN {[x EXCEPT !.clean = FALSE] : x \in msgs \ {m}}
                    ELSE msgs \ {m}
  /\ lastEff' = m.id
  /\ UNCHANGED << faulty, envVars, sendVars, error, pc, currentTime, onended, closureIsActive,
                  nStarts, stopped, decodeFailed >>

\* await decodeAudioData throws: the handler ends there
decodeRejected(m) ==
  /\ m \in msgs
  /\ msgs' = msgs \ {m}
  /\ decodeFailed' = TRUE
  /\ last' = Other
  /\ Commit(Cur)
  /\ UNCHANGED << faulty, envVars, sendVars, lastEnd, intr, error, pc, currentTime, onended,
                  closureIsActive, nStarts, stopped, lastEff >>

\* A playback unit plays to its end: variant B's 'ended' listener removes it
ended(i) ==
  /\ i \in DOMAIN units
  /\ units[i].st = "sched"
  /\ outputCtx[units[i].ctx] = "open"
  /\ currentTime[units[i].ctx] >= Max(units[i].start, units[i].at) + units[i].dur
  /\ Commit([Cur EXCEPT !.units[i].st = "ended",
                        !.sourcesRef = IF variant = "B" THEN @ \ {i} ELSE @])
  /\ last' = Other
  /\ UNCHANGED << faulty, envVars, sendVars, playVars, error, pc, currentTime, onended,
                  closureIsActive, nStarts, stopped, lastEff >>

\* The output context's clock advances while the context is open
Tick(k) ==
  /\ outputCtx[k] = "open"
  /\ currentTime[k] < MaxClock
  /\ currentTime' = [currentTime EXCEPT ![k] = @ + 1]
  /\ last' = Other
  /\ Commit(Cur)
  /\ UNCHANGED << faulty, envVars, sendVars, playVars, error, pc, onended, closureIsActive,
                  nStarts, stopped, lastEff >>

\* ----------------------------------------------------------- specification
\* Session lifecycle manager
NextLifecycle ==
  \/ startTutor
  \/ \E k \in Invs : ScreenResolved(k)
  \/ \E k \in Invs, m \in ErrMsgs : ScreenRejected(k, m)
  \/ \E k \in Invs, c \in {"none", "input", "output"}, m \in ErrMsgs : MicResolved(k, c, m)
  \/ \E k \in Invs, m \in ErrMsgs : MicRejected(k, m)
  \/ \E k \in Invs, t \in BOOLEAN, m \in ErrMsgs : PlayResolved(k, t, m)
  \/ \E k \in Invs, m \in ErrMsgs : PlayRejected(k, m)
  \/ \E k \in Invs : ConnectRejected(k)
  \/ UserStop
  \/ \E k \in Invs : TrackEnded(k)
  \/ \E k \in Invs : onerror(k)
  \/ \E k \in Invs : onclose(k)
  \/ \E k \in Invs, t \in BOOLEAN : onopen(k, t)

\* Capture pipeline
NextCapture ==
  \/ \E k \in Invs : SessionResolved(k)
  \/ \E k \in Invs : onaudioprocess(k)
  \/ \E k \in Invs, d \in BOOLEAN : frameTick(k, d)
  \/ \E fr \in blobPending, b \in BOOLEAN : toBlobCallback(fr, b)
  \/ \E fr \in readPending, b \in BOOLEAN : onloadend(fr, b)

\* Playback scheduler
NextPlayback ==
  \/ \E k \in Invs, a \in BOOLEAN, i \in BOOLEAN : onmessage(k, a, i)
  \/ \E m \in msgs, d \in Durations : decodeResolved(m, d)
  \/ \E m \in msgs : decodeRejected(m)
  \/ \E i \in DOMAIN units : ended(i)
  \/ \E k \in Invs : Tick(k)

Next == NextLifecycle \/ NextCapture \/ NextPlayback

\* The whole component
Spec == Init /\ [][Next]_vars


\* The capture pipeline and the playback scheduler share no state with each
\* other, only with the lifecycle manager: each is checked with the lifecycle
\* manager, for one invocation of startTutor, and the lifecycle manager is
\* checked alone for MaxStarts invocations.
InitMedia == InitWith(FALSE, MaxStartsMedia)
InitFault == InitWith(TRUE, MaxStartsMedia)

SpecLifecycle == Init /\ [][NextLifecycle]_vars
SpecCapture   == InitMedia /\ [][NextLifecycle \/ NextCapture]_vars
SpecPlayback  == InitMedia /\ [][NextLifecycle \/ NextPlayback]_vars
\* The playback specification on a platform whose release calls may fail
SpecFault     == InitFault /\ [][NextLifecycle \/ NextPlayback]_vars


\* ------------------------------------------------------------------ claims
\* Every resource invocation k acquired is released
Released(k) ==
  /\ screen[k] # "live" /\ mic[k] # "live"
  /\ inputCtx[k] # "open" /\ outputCtx[k] # "open"
  /\ timer[k] # "running"

\* How often payload p occurs in sequence q
Count(q, p) == Cardinality({i \in DOMAIN q : q[i] = p})

\* The payloads of one kind given to sendRealtimeInput of session k, in the
\* order they are sent: those sent, then those still queued on sessionPromise
Stream(k, kind) == SelectSeq(sent[k] \o thenQ[k], LAMBDA p : p[1] = kind)

Ascending(q) == \A i, j \in DOMAIN q : i < j => q[i][2] < q[j][2]

\* C1 (gapless playback): a unit scheduled with no interruption and no stop
\* since its handler began starts at the maximum of the previous unit's start
\* plus duration (0 before the first unit) and the output clock at the moment
\* source.start is called.
C1_GaplessPlayback ==
  \A i \in DOMAIN units :
    units[i].clean => units[i].start = Max(units[i].prevEnd, units[i].at)

\* C2 (interruption reset): once a message with interrupted = true has been
\* handled, the active set is empty, no scheduled unit is left unstopped and
\* nextStartTime is 0; the next unit scheduled afterwards starts at or after
\* the output clock at that moment.
C2_InterruptionReset ==
  /\ last.interrupted =>
       /\ sourcesRef = {}
       /\ nextStartTimeRef = 0
       /\ \A i \in DOMAIN units : units[i].st # "sched"
  /\ \A i \in DOMAIN units : units[i].afterIntr => units[i].start >= units[i].at

\* The handlers that do nothing to the resources but call stopSession
BareStops == {"userStop", "onerror", "onclose"}

\* C3 (idempotent teardown): after stopSession every resource handle is null,
\* and a stopSession called directly after another run of stopSession issues
\* no release call and changes no state.
C3_IdempotentTeardown ==
  /\ [](last.stop => /\ frameIntervalRef = 0
                     /\ streamsRef = [mic |-> 0, screen |-> 0]
                     /\ audioContextRef = 0)
  /\ [][last.stop /\ last'.op \in BareStops => last'.calls = {} /\ Cur' = Cur]_vars

\* C4 (partial-acquisition teardown): when startTutor has failed, or the
\* promise of ai.live.connect has rejected, everything that invocation acquired
\* is released, an error message is set and status is 'Ready'.
C4_PartialAcquisitionTeardown ==
  last.op \in {"catch", "connectRejected"} =>
    /\ last.k # 0 => Released(last.k)
    /\ error # NULL
    /\ status = "Ready"

\* C5 (cancellation): from a run of stopSession until the next start attempt
\* no frame timer is running.
C5_Cancellation == stopped => \A k \in Invs : timer[k] # "running"

\* C6 (no dropped audio): every onaudioprocess callback has issued exactly one
\* sendRealtimeInput for its window, sent or queued on sessionPromise.
C6_NoDroppedAudio ==
  \A k \in Invs : \A c \in audioFired[k] :
    Count(sent[k] \o thenQ[k], << "audio", c >>) = 1

\* C7 (per-stream FIFO): audio chunks reach sendRealtimeInput in the order of
\* their callbacks and video frames in the order of their timer ticks.
C7_PerStreamFifo ==
  \A k \in Invs : Ascending(Stream(k, "audio")) /\ Ascending(Stream(k, "video"))

\* C8 (arrival-order handling): the effects of inbound messages on the
\* playback state happen in the order the messages were delivered: no message
\* changes the playback state after a later message has.
C8_ArrivalOrder == [][lastEff' >= lastEff]_vars

\* The terminal events of a media session
TerminalEvents == {"userStop", "onerror", "onclose", "onended"}

\* C9 (complete teardown): after the teardown a terminal event triggers
\* (user stop, onerror, onclose, the screen track's onended) the frame timer is
\* cancelled, all tracks are stopped, both contexts are closed, every scheduled
\* unit is stopped, the active set is empty, nextStartTime is 0 and the remote
\* session is closed.
C9_CompleteTeardown ==
  last.op \in TerminalEvents =>
    /\ \A k \in Invs : Released(k)
    /\ \A i \in DOMAIN units : units[i].st # "sched"
    /\ sourcesRef = {}
    /\ nextStartTimeRef = 0
    /\ \A k \in Invs : pc[k] \notin {"connecting", "open"}

\* C10 (best-effort teardown): when one release call of stopSession fails, the
\* later steps still run: the active set ends empty and nextStartTime 0.
C10_BestEffortTeardown ==
  last.stop => sourcesRef = {} /\ nextStartTimeRef = 0

\* C11 (connection error handling): when onerror fires on an open session, an
\* error message is set and teardown leaves status 'Ready' and isActive false.
C11_ConnectionError ==
  [][\A k \in Invs :
       pc[k] = "open" /\ pc'[k] = "errored" =>
         error' # NULL /\ status' = "Ready" /\ ~isActive']_vars

\* A step in which startTutor fails at the screen share: getDisplayMedia is
\* absent (an invocation that never got an index), or its promise rejects
ScreenDenied(k) ==
  IF k = 0 THEN last'.op = "catch" /\ last'.k = 0
  ELSE pc[k] = "awaitScreen" /\ pc'[k] = "failed"

\* In this step no microphone stream, audio context, frame timer or remote
\* session comes into being, and invocation k (if it has an index) has none
NothingCreated(k) ==
  /\ \A j \in Invs :
       /\ mic[j] = "none" => mic'[j] = "none"
       /\ inputCtx[j] = "none" => inputCtx'[j] = "none"
       /\ outputCtx[j] = "none" => outputCtx'[j] = "none"
       /\ timer[j] = "none" => timer'[j] = "none"
       /\ pc'[j] = "connecting" => pc[j] = "connecting"
  /\ k # 0 => /\ mic'[k] = "none" /\ inputCtx'[k] = "none" /\ outputCtx'[k] = "none"
              /\ timer'[k] = "none" /\ pc'[k] = "failed"

\* C12 as stated (screen-share denial): startTutor ends with status 'Ready',
\* isActive false, the error message equal to the thrown error's message, and
\* no microphone stream, audio context, frame timer or session was created.
C12_ScreenDenialAsStated ==
  [][\A k \in 0..MaxStarts :
       ScreenDenied(k) =>
         /\ status' = "Ready" /\ ~isActive'
         /\ error' = last'.thrown
         /\ NothingCreated(k)]_vars

\* C12 amended (screen-share denial): as stated, except that the error message
\* is the thrown error's message when that is non-empty and the fallback text
\* of the variant when it is empty.
C12_ScreenDenial ==
  [][\A k \in 0..MaxStarts :
       ScreenDenied(k) =>
         /\ status' = "Ready" /\ ~isActive'
         /\ error' = (IF last'.thrown = "" THEN FallbackMsg ELSE last'.thrown)
         /\ NothingCreated(k)]_vars

\* A getDisplayMedia rejection with an empty message has been caught
C12_Witness ==
  /\ last.op = "catch" /\ last.k # 0 /\ last.thrown = ""
  /\ screen[last.k] = "none" /\ pc[last.k] = "failed"
  /\ error = FallbackMsg /\ status = "Ready"

\* A step in which an onmessage handler ends at its await of decodeAudioData
\* without scheduling a unit
DecodeFailedStep == (\E m \in msgs : msgs' = msgs \ {m}) /\ units' = units

\* C13 (decode failure isolation): a failed decode schedules no unit, adds
\* nothing to the active set and tears nothing down, and every audio message
\* scheduled after it (with no interruption and no stop since its handler
\* began) is scheduled by the gapless rule: it starts at the maximum of the
\* previous unit's end and the output clock at the moment of source.start.
C13_DecodeFailureIsolation ==
  /\ [][DecodeFailedStep => Cur' = Cur]_vars
  /\ [](\A i \in DOMAIN units :
          units[i].afterFail /\ units[i].clean =>
            units[i].start = Max(units[i].prevEnd, units[i].at))

\* The remote session's open is pending: resources are acquired, onopen has not
\* fired and the status shows the connecting text
PendingOpen == \E k \in Invs : pc[k] = "connecting" /\ status = StatusConnecting

\* C14 (cancellable pending open): while the open is pending, the user's stop
\* action is available, and no click starts another invocation of startTutor.
C14_CancellablePendingOpen ==
  /\ [](PendingOpen => ENABLED UserStop)
  /\ [][PendingOpen => nStarts' = nStarts]_vars

\* The handlers that set no error message themselves and call stopSession
SilentStops == {"userStop", "onended", "onclose"} \cup
               (IF variant = "A" THEN {"onerror"} ELSE {})

\* C15 (error message persistence): stopSession leaves the error message
\* unchanged, a non-null error message becomes null only in an invocation of
\* startTutor, and onclose tears down without setting an error message.
C15_ErrorPersistence ==
  [][/\ last'.op \in SilentStops => error' = error
     /\ error # NULL /\ error' = NULL => nStarts' = nStarts + 1]_vars

\* onclose has torn down while an error message was shown, and it still is
C15_Witness ==
  /\ last.op = "onclose" /\ last.stop
  /\ error # NULL /\ status = "Ready"

\* Unit i has a predecessor in its run: a unit was scheduled before it with no
\* interruption signal and no teardown in between (every duration is positive)
HasPredecessor(i) == units[i].prevEnd # 0 /\ ~units[i].afterIntr

\* Only one output context has been created so far
OneOutputContext == Cardinality({k \in Invs : outputCtx[k] # "none"}) <= 1

\* C16 as stated (no-gap invariant): with no interruption in between, the
\* earlier unit's start plus duration is >= the later unit's start, also when
\* the output clock has passed nextStartTime before the later one is scheduled.
C16_NoGapAsStated ==
  \A i \in DOMAIN units :
    HasPredecessor(i) => units[i].prevEnd >= units[i].start

\* C16 amended (no overlap, no avoidable gap): with no interruption in
\* between, the earlier unit's start plus duration is <= the later unit's
\* start, and equal to it unless the output clock had passed it by the time
\* the later unit is scheduled.
C16_NoOverlap ==
  \A i \in DOMAIN units :
    HasPredecessor(i) =>
      /\ units[i].prevEnd <= units[i].start
      /\ OneOutputContext /\ units[i].at <= units[i].prevEnd =>
           units[i].start = units[i].prevEnd

\* A unit was scheduled after a delivery gap: the output clock had passed the
\* end of its predecessor, and it starts later than that end
C16_Witness ==
  \E i \in DOMAIN units :
    /\ HasPredecessor(i)
    /\ units[i].at > units[i].prevEnd
    /\ units[i].start > units[i].prevEnd

\* C17 (active playback set membership): sourcesRef holds exactly the units
\* given to source.start that have neither ended nor been stopped.
C17_ActiveSetMembership ==
  sourcesRef = {i \in DOMAIN units : units[i].st = "sched"}

\* C18 (teardown is final for playback state): from a run of stopSession
\* until the next start attempt, the active set is empty and nextStartTime 0.
C18_TeardownFinal ==
  stopped => sourcesRef = {} /\ nextStartTimeRef = 0

\* C19 (UI state matches resource state): while isActive is true, the mic and
\* screen streams are held with live tracks, both audio contexts are open and
\* the frame timer is running.
C19_UiMatchesResources ==
  isActive =>
    /\ streamsRef.mic # 0 /\ mic[streamsRef.mic] = "live"
    /\ streamsRef.screen # 0 /\ screen[streamsRef.screen] = "live"
    /\ audioContextRef # 0
    /\ inputCtx[audioContextRef] = "open" /\ outputCtx[audioContextRef] = "open"
    /\ frameIntervalRef # 0 /\ timer[frameIntervalRef] = "running"

\* Invocation k has assigned the refs and has not failed
PastAcquisition(k) ==
  pc[k] \in {"awaitPlay", "connecting", "open", "errored", "closed", "rejected"}

\* C20 (no orphaned resources): every live stream, open context and running
\* frame timer of an invocation that got as far as assigning the refs is the
\* one streamsRef / audioContextRef / frameIntervalRef refers to.
C20_NoOrphans ==
  \A k \in Invs :
    PastAcquisition(k) =>
      /\ mic[k] = "live" => streamsRef.mic = k
      /\ screen[k] = "live" => streamsRef.screen = k
      /\ inputCtx[k] = "open" \/ outputCtx[k] = "open" => audioContextRef = k
      /\ timer[k] = "running" => frameIntervalRef = k

\* C21 (interruption frame condition): the handler of a message with
\* interrupted = true changes only the playback state (units, active set,
\* nextStartTime): streams, contexts, frame timer, isActive, status and error
\* are unchanged, and the capture callbacks stay registered.
C21_InterruptionFrame ==
  [][last'.interrupted =>
       /\ streamsRef' = streamsRef /\ mic' = mic /\ screen' = screen
       /\ audioContextRef' = audioContextRef
       /\ inputCtx' = inputCtx /\ outputCtx' = outputCtx
       /\ frameIntervalRef' = frameIntervalRef /\ timer' = timer
       /\ isActive' = isActive /\ status' = status /\ error' = error
       /\ scriptProcessor' = scriptProcessor
       /\ sent' = sent /\ thenQ' = thenQ]_vars

\* An interruption has stopped a scheduled unit while the session is active,
\* its frame timer running and its audio callback registered
C21_Witness ==
  /\ last.interrupted /\ isActive
  /\ \E i \in DOMAIN units : units[i].st = "stopped"
  /\ sourcesRef = {} /\ nextStartTimeRef = 0
  /\ \E k \in Invs : /\ timer[k] = "running" /\ scriptProcessor[k]
                      /\ mic[k] = "live" /\ inputCtx[k] = "open"

====
